---- MODULE Spec2Model ----
(***************************************************************************)
(* The map visualization of frontend/src/metabase/visualizations:          *)
(*   visualizations/Map.jsx        the settings schema (defaults and       *)
(*                                 visibility), checkRenderable,           *)
(*                                 shouldComponentUpdate and render;       *)
(*   components/LeafletHeatMap.jsx the heat layer kept in step with the    *)
(*                                 props of the component.                 *)
(***************************************************************************)
EXTENDS Integers, Sequences, FiniteSets, TLC

VARIABLES
    series,     \* the first series: card.display, data.cols, data.rows.length
    settings,   \* the settings object (vizSettings / this.props.settings)
    width,      \* this.props.width of the Map component
    height,     \* this.props.height of the Map component
    rendered,   \* what the last call of Map.render returned
    scu,        \* the last call of Map.shouldComponentUpdate: inputs and result
    result,     \* the last call of a static function of Map: name and outcome
    phase,      \* LeafletHeatMap: "new", "mounted" (componentDidMount has run)
    hprops,     \* LeafletHeatMap: this.props (points, max, settings)
    heatLayer,  \* LeafletHeatMap: this.heatLayer (options, latlngs) or NoLayer
    pinMarkerLayer, \* LeafletHeatMap: this.pinMarkerLayer was created
    calls,      \* library calls made by the last lifecycle method, in order
    fault,      \* the library call that threw in the last lifecycle method
    forwarded,  \* arguments of the onRenderError calls of the last lifecycle method
    escaped     \* the exception that left the last lifecycle method, or NoError

vars == << series, settings, width, height, rendered, scu, result,
           phase, hprops, heatLayer, pinMarkerLayer, calls, fault,
           forwarded, escaped >>

mapVars  == << series, settings, width, height, rendered, scu, result >>
heatVars == << phase, hprops, heatLayer, pinMarkerLayer, calls, fault,
               forwarded, escaped >>

(***************************************************************************)
(* JavaScript values.  A setting is a string, or undefined or null when    *)
(* nothing is stored; !x is true of undefined, null and the empty string.  *)
(***************************************************************************)
Undefined == "<undefined>"
Null      == "<null>"

Falsy(v) == v \in {Undefined, Null, ""}

Truthy(v) == ~Falsy(v)

(***************************************************************************)
(* Bounds of the model.                                                    *)
(***************************************************************************)
MaxCols == 2

\* the largest row count tried is TilesThreshold + MaxExtraRows
MaxExtraRows == 1

\* the largest width and height tried are MinWidth + MaxGrow, MinHeight + MaxGrow
MaxGrow == 1

\* const PIN_MAP_TYPES = new Set(["pin", "heat", "grid"]);
PIN_MAP_TYPES == {"pin", "heat", "grid"}

\* the options of the "map.type" select widget
MapTypeOptions == {"region", "pin", "heat", "grid"}

\* the options of "map.pin_type"
PinTypeOptions == {"tiles", "markers", "heat", "grid"}

SettingKeys == {"map.type", "map.pin_type", "map.latitude_column",
                "map.longitude_column", "map.metric_column",
                "map.dimension", "map.metric"}

MkSettings(type, pinType, lat, lon, metricColumn, dimension, metric) ==
    [k \in SettingKeys |->
        CASE k = "map.type"             -> type
          [] k = "map.pin_type"         -> pinType
          [] k = "map.latitude_column"  -> lat
          [] k = "map.longitude_column" -> lon
          [] k = "map.metric_column"    -> metricColumn
          [] k = "map.dimension"        -> dimension
          [] k = "map.metric"           -> metric]

(***************************************************************************)
(* Columns of the query result (data.cols): an array of columns with       *)
(* distinct names, each with a special type and, when binned, binning_info.*)
(***************************************************************************)
ColNames == {"lat", "lon", "cnt"}

SpecialTypes == {"latitude", "longitude", "none"}

Column == [name : ColNames, special_type : SpecialTypes, binning_info : BOOLEAN]

DistinctNames(cols) ==
    \A i, j \in 1..Len(cols) : i # j => cols[i].name # cols[j].name

ColsInputs ==
    UNION { {c \in [1..n -> Column] : DistinctNames(c)} : n \in 0..MaxCols }

\* hasLatitudeAndLongitudeColumns(cols) of metabase/lib/schema_metadata
hasLatitudeAndLongitudeColumns(cols) ==
    /\ \E i \in 1..Len(cols) : cols[i].special_type = "latitude"
    /\ \E i \in 1..Len(cols) : cols[i].special_type = "longitude"

\* _.findWhere(cols, { name: name }): the index of the first column of that
\* name, 0 (undefined) when there is none
findWhere(cols, name) ==
    IF \E i \in 1..Len(cols) : cols[i].name = name
    THEN CHOOSE i \in 1..Len(cols) :
            /\ cols[i].name = name
            /\ \A j \in 1..(i - 1) : cols[j].name # name
    ELSE 0

(***************************************************************************)
(* settings["map.type"].getDefault                                         *)
(***************************************************************************)
\* MapTypeGetDefault with the metric column tested before the binning
MapTypeGetDefault_MetricFirst(ser, s) ==
    CASE ser.display \in {"state", "country"} -> "region"
      [] ser.display = "pin_map" -> "pin"
      [] OTHER ->
            IF hasLatitudeAndLongitudeColumns(ser.cols)
            THEN LET latitudeColumn  == findWhere(ser.cols, s["map.latitude_column"])
                     longitudeColumn == findWhere(ser.cols, s["map.longitude_column"])
                 IN  IF Truthy(s["map.metric_column"])
                     THEN "heat"
                     ELSE IF /\ latitudeColumn # 0
                             /\ longitudeColumn # 0
                             /\ ser.cols[latitudeColumn].binning_info
                             /\ ser.cols[longitudeColumn].binning_info
                          THEN "grid"
                          ELSE "pin"
            ELSE "region"

MapTypeGetDefault(ser, s) ==
    CASE ser.display \in {"state", "country"} -> "region"
      [] ser.display = "pin_map" -> "pin"
      [] OTHER ->
            IF hasLatitudeAndLongitudeColumns(ser.cols)
            THEN LET latitudeColumn  == findWhere(ser.cols, s["map.latitude_column"])
                     longitudeColumn == findWhere(ser.cols, s["map.longitude_column"])
                 IN  IF /\ latitudeColumn # 0
                        /\ longitudeColumn # 0
                        /\ ser.cols[latitudeColumn].binning_info
                        /\ ser.cols[longitudeColumn].binning_info
                     THEN "grid"
                     ELSE IF Truthy(s["map.metric_column"])
                          THEN "heat"
                          ELSE "pin"
            ELSE "region"

(***************************************************************************)
(* settings["map.pin_type"].getDefault; ser.rows is data.rows.length       *)
(***************************************************************************)
TilesThreshold == 1000

\* PinTypeGetDefault with > for >=
PinTypeGetDefault_Above(ser, s) ==
    IF s["map.type"] = "heat"
    THEN "heat"
    ELSE IF s["map.type"] = "grid"
         THEN "grid"
         ELSE IF ser.rows > TilesThreshold
              THEN "tiles"
              ELSE "markers"

PinTypeGetDefault(ser, s) ==
    IF s["map.type"] = "heat"
    THEN "heat"
    ELSE IF s["map.type"] = "grid"
         THEN "grid"
         ELSE IF ser.rows >= TilesThreshold
              THEN "tiles"
              ELSE "markers"

(***************************************************************************)
(* getHidden of every setting that has one                                 *)
(***************************************************************************)
PinSettings    == {"map.pin_type", "map.latitude_column", "map.longitude_column"}

RegionSettings == {"map.region", "map.metric", "map.dimension"}

HeatSettings   == {"map.heat.radius", "map.heat.blur", "map.heat.min-opacity",
                   "map.heat.max-zoom"}

HideableSettings ==
    PinSettings \cup {"map.metric_column"} \cup RegionSettings \cup HeatSettings

\* getHidden with the heat settings shown for every pin map type
getHidden_HeatForPins(key, ser, s) ==
    CASE key \in PinSettings -> s["map.type"] \notin PIN_MAP_TYPES
      [] key = "map.metric_column" ->
            \/ s["map.type"] \notin PIN_MAP_TYPES
            \/ (s["map.pin_type"] # "heat" /\ s["map.pin_type"] # "grid")
      [] key \in RegionSettings -> s["map.type"] # "region"
      [] key \in HeatSettings -> s["map.type"] \notin PIN_MAP_TYPES

\* getHidden with map.metric_column deciding on map.type alone
getHidden_MetricByType(key, ser, s) ==
    CASE key \in PinSettings -> s["map.type"] \notin PIN_MAP_TYPES
      [] key = "map.metric_column" -> s["map.type"] \notin {"heat", "grid"}
      [] key \in RegionSettings -> s["map.type"] # "region"
      [] key \in HeatSettings -> s["map.type"] # "heat"

getHidden(key, ser, s) ==
    CASE key \in PinSettings -> s["map.type"] \notin PIN_MAP_TYPES
      [] key = "map.metric_column" ->
            \/ s["map.type"] \notin PIN_MAP_TYPES
            \/ (s["map.pin_type"] # "heat" /\ s["map.pin_type"] # "grid")
      [] key \in RegionSettings -> s["map.type"] # "region"
      [] key \in HeatSettings -> s["map.type"] # "heat"

(***************************************************************************)
(* Map.checkRenderable: "returned", or the message of the                  *)
(* ChartSettingsError it throws                                            *)
(***************************************************************************)
Returned == "returned"

LatLonMessage ==
    "Please select longitude and latitude columns in the chart settings."

RegionMessage ==
    "Please select region and metric columns in the chart settings."

\* checkRenderable with && for || in the test of the two coordinate columns
checkRenderable_BothUnset(ser, s) ==
    IF s["map.type"] \in PIN_MAP_TYPES
    THEN IF Falsy(s["map.longitude_column"]) /\ Falsy(s["map.latitude_column"])
         THEN LatLonMessage
         ELSE Returned
    ELSE IF s["map.type"] = "region"
         THEN IF Falsy(s["map.dimension"]) \/ Falsy(s["map.metric"])
              THEN RegionMessage
              ELSE Returned
         ELSE Returned

\* checkRenderable without the test of the metric of a region map
checkRenderable_NoMetric(ser, s) ==
    IF s["map.type"] \in PIN_MAP_TYPES
    THEN IF Falsy(s["map.longitude_column"]) \/ Falsy(s["map.latitude_column"])
         THEN LatLonMessage
         ELSE Returned
    ELSE IF s["map.type"] = "region"
         THEN IF Falsy(s["map.dimension"])
              THEN RegionMessage
              ELSE Returned
         ELSE Returned

checkRenderable(ser, s) ==
    IF s["map.type"] \in PIN_MAP_TYPES
    THEN IF Falsy(s["map.longitude_column"]) \/ Falsy(s["map.latitude_column"])
         THEN LatLonMessage
         ELSE Returned
    ELSE IF s["map.type"] = "region"
         THEN IF Falsy(s["map.dimension"]) \/ Falsy(s["map.metric"])
              THEN RegionMessage
              ELSE Returned
         ELSE Returned

(***************************************************************************)
(* The Map component: this.props, shouldComponentUpdate, render            *)
(***************************************************************************)
Props(w, h, ser, s) == [width |-> w, height |-> h, series |-> ser, settings |-> s]

thisProps == Props(width, height, series, settings)

\* isSameSeries(a, b) of metabase/visualizations/lib/utils
isSameSeries(a, b) == a = b

shouldComponentUpdate(props, nextProps) ==
    LET sameSize   == props.width = nextProps.width /\ props.height = nextProps.height
        sameSeries == isSameSeries(props.series, nextProps.series)
    IN  ~(sameSize /\ sameSeries)

\* render with PinMap for map.type pin alone
render_PinOnly(props) ==
    LET type == props.settings["map.type"]
    IN  IF type = "pin"
        THEN [component |-> "PinMap", props |-> props]
        ELSE IF type = "region"
             THEN [component |-> "ChoroplethMap", props |-> props]
             ELSE [component |-> Undefined, props |-> Undefined]

\* the element render returns: <PinMap {...this.props} />,
\* <ChoroplethMap {...this.props} />, or undefined
render(props) ==
    LET type == props.settings["map.type"]
    IN  IF type \in PIN_MAP_TYPES
        THEN [component |-> "PinMap", props |-> props]
        ELSE IF type = "region"
             THEN [component |-> "ChoroplethMap", props |-> props]
             ELSE [component |-> Undefined, props |-> Undefined]

(***************************************************************************)
(* Inputs                                                                  *)
(***************************************************************************)
\* static minSize = { width: 4, height: 4 }
MinWidth == 4

MinHeight == 4

Displays == {"state", "country", "pin_map", "map"}

RowsInputs == {0, TilesThreshold - 1, TilesThreshold} \cup
              {TilesThreshold + n : n \in 1..MaxExtraRows}

TypeInputs == MapTypeOptions \cup {Undefined, "other"}

PinTypeInputs == PinTypeOptions \cup {Undefined}

\* a stored column name, or nothing stored
ColumnChoice(name) == {Undefined, Null, "", name}

NoSeries == [display |-> "map", cols |-> << >>, rows |-> 0]

NoSettings ==
    MkSettings(Undefined, Undefined, Undefined, Undefined, Undefined,
               Undefined, Undefined)

NotCalled == [op |-> "none", val |-> "none"]

NotRendered == [component |-> "<not rendered>", props |-> Undefined]

NoScu == [called |-> FALSE, ret |-> FALSE, props |-> Undefined,
          nextProps |-> Undefined]

(***************************************************************************)
(* Calls of the static functions of Map on the current series and settings *)
(***************************************************************************)
GetDefaultMapType ==
    /\ result' = [op |-> "map.type.getDefault",
                  val |-> MapTypeGetDefault(series, settings)]
    /\ UNCHANGED << series, settings, width, height, rendered, scu >>

GetDefaultPinType ==
    /\ result' = [op |-> "map.pin_type.getDefault",
                  val |-> PinTypeGetDefault(series, settings)]
    /\ UNCHANGED << series, settings, width, height, rendered, scu >>

\* the settings UI asks every setting's getHidden
GetHidden ==
    /\ result' = [op |-> "getHidden",
                  val |-> [k \in HideableSettings |-> getHidden(k, series, settings)]]
    /\ UNCHANGED << series, settings, width, height, rendered, scu >>

CheckRenderable ==
    /\ result' = [op |-> "checkRenderable",
                  val |-> checkRenderable(series, settings)]
    /\ UNCHANGED << series, settings, width, height, rendered, scu >>

Render ==
    /\ rendered' = render(thisProps)
    /\ UNCHANGED << series, settings, width, height, scu, result >>

\* React hands the mounted component new props: shouldComponentUpdate decides
\* whether render runs, and the props become this.props either way
ReceiveProps(nextProps) ==
    LET update == shouldComponentUpdate(thisProps, nextProps)
    IN  /\ scu' = [called |-> TRUE, ret |-> update, props |-> thisProps,
                   nextProps |-> nextProps]
        /\ width' = nextProps.width
        /\ height' = nextProps.height
        /\ series' = nextProps.series
        /\ settings' = nextProps.settings
        /\ rendered' = IF update THEN render(nextProps) ELSE rendered
        /\ UNCHANGED result

(***************************************************************************)
(* LeafletHeatMap                                                          *)
(***************************************************************************)
\* L.heatLayer([], { radius: 25 })
InitialRadius == 25

\* the defaults of the map.heat.* settings
HeatRadiusDefault == 30

HeatBlurDefault == 60

HeatMinOpacityDefault == 0

HeatMaxZoomDefault == 1

\* the largest props.max tried
MaxMax == 2

\* the points handed over are << >>, <<1>>, ... up to MaxPoints points
MaxPoints == 2

PointsInputs == { [i \in 1..n |-> i] : n \in 0..MaxPoints }

HeatSettingsOf(r, b) ==
    [k \in HeatSettings |->
          CASE k = "map.heat.radius"      -> r
            [] k = "map.heat.blur"        -> b
            [] k = "map.heat.min-opacity" -> HeatMinOpacityDefault
            [] k = "map.heat.max-zoom"    -> HeatMaxZoomDefault]

HeatSettingsInputs ==
    { HeatSettingsOf(HeatRadiusDefault + d, HeatBlurDefault + d) : d \in {0, 1} }

HPropsInputs == [points : PointsInputs, max : 1..MaxMax, settings : HeatSettingsInputs]

\* the library calls of the two lifecycle methods, in the order of the code
MountCalls  == << "super.componentDidMount", "L.layerGroup", "L.heatLayer" >>

UpdateCalls == << "super.componentDidUpdate", "heatLayer.setOptions",
                  "heatLayer.setLatLngs" >>

Range(seq) == { seq[i] : i \in 1..Len(seq) }

\* calls up to and including the one that throws; all of them when none does
Upto(seq, at) ==
    IF at \in Range(seq)
    THEN SubSeq(seq, 1, CHOOSE i \in 1..Len(seq) : seq[i] = at)
    ELSE seq

\* what a library call throws: an Error with a message, or a value without one
Errors == { [id |-> "e1", message |-> "boom"], [id |-> "e2", message |-> Undefined] }

NoError == [id |-> "none", message |-> Undefined]

NoFault == [at |-> "none", err |-> NoError, partial |-> FALSE]

\* a call that throws, what it throws, and whether the call had changed the
\* layer before it threw
Faults(callSet) ==
    {NoFault} \cup [at : callSet, err : Errors, partial : BOOLEAN]

\* the lifecycle methods of LeafletMap, called through super
SuperCalls == {"super.componentDidMount", "super.componentDidUpdate"}

NoLayer == [exists |-> FALSE, options |-> << >>, latlngs |-> << >>]

InitialLayer == [exists |-> TRUE, options |-> ("radius" :> InitialRadius),
                 latlngs |-> << >>]

\* the options object componentDidUpdate builds from this.props
OptionsOf(p) ==
    [o \in {"max", "maxZoom", "minOpacity", "radius", "blur"} |->
        CASE o = "max"        -> p.max
          [] o = "maxZoom"    -> p.settings["map.heat.max-zoom"]
          [] o = "minOpacity" -> p.settings["map.heat.min-opacity"]
          [] o = "radius"     -> p.settings["map.heat.radius"]
          [] o = "blur"       -> p.settings["map.heat.blur"]]

\* heatLayer.setOptions(o): L.setOptions merges o into the layer's options
setOptions(layer, o) == [layer EXCEPT !.options = o @@ layer.options]

\* heatLayer.setLatLngs(points)
setLatLngs(layer, points) == [layer EXCEPT !.latlngs = points]

\* this.props.onRenderError(err.message || err)
onRenderErrorArg(err) ==
    IF Truthy(err.message)
    THEN [kind |-> "message", value |-> err.message]
    ELSE [kind |-> "error", value |-> err.id]

\* componentDidUpdate with the points set before the options
componentDidUpdate_PointsFirst(layer, p, f) ==
    IF f.at = "super.componentDidUpdate"
    THEN [heatLayer |-> layer, forwarded |-> << >>, escaped |-> f.err,
          calls |-> Upto(UpdateCalls, f.at)]
    ELSE LET withPoints == setLatLngs(layer, p.points)
         IN  IF f.at = "heatLayer.setOptions"
             THEN [heatLayer |-> IF f.partial
                                 THEN setOptions(withPoints, OptionsOf(p))
                                 ELSE withPoints,
                   forwarded |-> << onRenderErrorArg(f.err) >>,
                   escaped   |-> NoError,
                   calls     |-> << "super.componentDidUpdate",
                                    "heatLayer.setLatLngs",
                                    "heatLayer.setOptions" >>]
             ELSE IF f.at = "heatLayer.setLatLngs"
                  THEN [heatLayer |-> IF f.partial THEN withPoints ELSE layer,
                        forwarded |-> << onRenderErrorArg(f.err) >>,
                        escaped   |-> NoError,
                        calls     |-> << "super.componentDidUpdate",
                                         "heatLayer.setLatLngs" >>]
                  ELSE [heatLayer |-> setOptions(withPoints, OptionsOf(p)),
                        forwarded |-> << >>,
                        escaped   |-> NoError,
                        calls     |-> << "super.componentDidUpdate",
                                         "heatLayer.setLatLngs",
                                         "heatLayer.setOptions" >>]

\* componentDidUpdate on layer with this.props = p, where the call f.at throws:
\* the layer afterwards, the onRenderError calls, the exception that leaves
componentDidUpdate(layer, p, f) ==
    IF f.at = "super.componentDidUpdate"
    THEN [heatLayer |-> layer, forwarded |-> << >>, escaped |-> f.err,
          calls |-> Upto(UpdateCalls, f.at)]
    ELSE IF f.at = "heatLayer.setOptions"
         THEN [heatLayer |-> IF f.partial THEN setOptions(layer, OptionsOf(p)) ELSE layer,
               forwarded |-> << onRenderErrorArg(f.err) >>,
               escaped   |-> NoError,
               calls     |-> Upto(UpdateCalls, f.at)]
         ELSE LET withOptions == setOptions(layer, OptionsOf(p))
              IN  IF f.at = "heatLayer.setLatLngs"
                  THEN [heatLayer |-> IF f.partial
                                      THEN setLatLngs(withOptions, p.points)
                                      ELSE withOptions,
                        forwarded |-> << onRenderErrorArg(f.err) >>,
                        escaped   |-> NoError,
                        calls     |-> UpdateCalls]
                  ELSE [heatLayer |-> setLatLngs(withOptions, p.points),
                        forwarded |-> << >>,
                        escaped   |-> NoError,
                        calls     |-> UpdateCalls]

\* componentDidMount, which ends by calling componentDidUpdate({}, {})
Mount(f) ==
    /\ phase = "new"
    /\ fault' = f
    /\ hprops' = hprops
    /\ IF f.at \in Range(MountCalls)
       THEN /\ phase' = "failed"
            /\ pinMarkerLayer' = (f.at = "L.heatLayer")
            /\ heatLayer' = NoLayer
            /\ calls' = Upto(MountCalls, f.at)
            /\ forwarded' = << >>
            /\ escaped' = f.err
       ELSE LET u == componentDidUpdate(InitialLayer, hprops, f)
            IN  /\ phase' = "mounted"
                /\ pinMarkerLayer' = TRUE
                /\ heatLayer' = u.heatLayer
                /\ calls' = MountCalls \o u.calls
                /\ forwarded' = u.forwarded
                /\ escaped' = u.escaped
    /\ UNCHANGED mapVars

\* React hands the mounted component the props p and calls componentDidUpdate
Update(p, f) ==
    /\ phase = "mounted"
    /\ fault' = f
    /\ hprops' = p
    /\ LET u == componentDidUpdate(heatLayer, p, f)
       IN  /\ heatLayer' = u.heatLayer
           /\ forwarded' = u.forwarded
           /\ escaped' = u.escaped
           /\ calls' = u.calls
    /\ UNCHANGED << phase, pinMarkerLayer >>
    /\ UNCHANGED mapVars

(***************************************************************************)
(* Initial states and specifications                                       *)
(***************************************************************************)
HeatNew(p) ==
    /\ phase = "new"
    /\ hprops = p
    /\ heatLayer = NoLayer
    /\ pinMarkerLayer = FALSE
    /\ calls = << >>
    /\ fault = NoFault
    /\ forwarded = << >>
    /\ escaped = NoError

NoHProps == [points |-> << >>, max |-> 1,
             settings |-> HeatSettingsOf(HeatRadiusDefault, HeatBlurDefault)]

MapNew(w, h, ser, s) ==
    /\ width = w
    /\ height = h
    /\ series = ser
    /\ settings = s
    /\ rendered = NotRendered
    /\ scu = NoScu
    /\ result = NotCalled

\* map.type's default, over every card.display, column array and stored
\* latitude, longitude and metric column
InitMapType ==
    /\ \E d \in Displays, cols \in ColsInputs,
          lat \in {Undefined} \cup ColNames, lon \in {Undefined} \cup ColNames,
          mc \in {Undefined, "", "cnt"} :
            MapNew(MinWidth, MinHeight,
                   [display |-> d, cols |-> cols, rows |-> 0],
                   MkSettings(Undefined, Undefined, lat, lon, mc, Undefined, Undefined))
    /\ HeatNew(NoHProps)

NextMapType == GetDefaultMapType /\ UNCHANGED heatVars

SpecMapType == InitMapType /\ [][NextMapType]_vars

\* map.pin_type's default and the visibility of the settings, over every
\* map.type, stored map.pin_type and row count
InitSchema ==
    /\ \E t \in TypeInputs, pt \in PinTypeInputs, n \in RowsInputs :
            MapNew(MinWidth, MinHeight,
                   [display |-> "map", cols |-> << >>, rows |-> n],
                   MkSettings(t, pt, Undefined, Undefined, Undefined, Undefined,
                              Undefined))
    /\ HeatNew(NoHProps)

NextSchema ==
    \/ GetDefaultPinType /\ UNCHANGED heatVars
    \/ GetHidden /\ UNCHANGED heatVars

SpecSchema == InitSchema /\ [][NextSchema]_vars

\* checkRenderable and render, over every map.type and stored column
LatLonCols(binned) ==
    << [name |-> "lat", special_type |-> "latitude", binning_info |-> binned],
       [name |-> "lon", special_type |-> "longitude", binning_info |-> binned] >>

GuardCols == { << >>, LatLonCols(FALSE), LatLonCols(TRUE) }

InitGuard ==
    /\ \E w \in MinWidth..(MinWidth + MaxGrow), d \in Displays,
          cols \in GuardCols,
          t \in TypeInputs,
          lat \in ColumnChoice("lat"), lon \in ColumnChoice("lon"),
          dim \in {Undefined, "", "state"}, m \in {Undefined, "", "cnt"} :
            MapNew(w, MinHeight,
                   [display |-> d, cols |-> cols, rows |-> 0],
                   MkSettings(t, Undefined, lat, lon, Undefined, dim, m))
    /\ HeatNew(NoHProps)

NextGuard ==
    \/ GetDefaultMapType /\ UNCHANGED heatVars
    \/ CheckRenderable /\ UNCHANGED heatVars
    \/ Render /\ UNCHANGED heatVars

SpecGuard == InitGuard /\ [][NextGuard]_vars

\* the mounted Map component under a sequence of prop updates
SeriesInputs ==
    { [display |-> "map", cols |-> << >>, rows |-> n] : n \in {0, 1} }

SettingsInputs ==
    { MkSettings(t, Undefined, lat, "lon", Undefined, Undefined, Undefined) :
        t \in {"region", "pin", "heat"}, lat \in {Undefined, "lat"} }

PropsInputs ==
    { Props(w, h, ser, s) :
        w \in MinWidth..(MinWidth + MaxGrow), h \in {MinHeight},
        ser \in SeriesInputs, s \in SettingsInputs }

\* the component is mounted: render has run on its first props
InitComponent ==
    /\ \E p \in PropsInputs :
        /\ width = p.width
        /\ height = p.height
        /\ series = p.series
        /\ settings = p.settings
        /\ rendered = render(p)
    /\ scu = NoScu
    /\ result = NotCalled
    /\ HeatNew(NoHProps)

NextComponent ==
    \E p \in PropsInputs : ReceiveProps(p) /\ UNCHANGED heatVars

SpecComponent == InitComponent /\ [][NextComponent]_vars

\* LeafletHeatMap from construction: one mount, then updates
InitHeat ==
    /\ MapNew(MinWidth, MinHeight, NoSeries, NoSettings)
    /\ \E p \in HPropsInputs : HeatNew(p)

NextHeat ==
    \/ \E f \in Faults(Range(MountCalls \o UpdateCalls)) : Mount(f)
    \/ \E p \in HPropsInputs, f \in Faults(Range(UpdateCalls)) : Update(p, f)

SpecHeat == InitHeat /\ [][NextHeat]_vars

\* the same, with the lifecycle methods of LeafletMap completing: only the
\* Leaflet calls LeafletHeatMap makes itself may throw
NextHeatLibrary ==
    \/ \E f \in Faults(Range(MountCalls \o UpdateCalls) \ SuperCalls) : Mount(f)
    \/ \E p \in HPropsInputs, f \in Faults(Range(UpdateCalls) \ SuperCalls) :
            Update(p, f)

SpecHeatLibrary == InitHeat /\ [][NextHeatLibrary]_vars

(***************************************************************************)
(* Properties                                                              *)
(***************************************************************************)
Unset(k) == settings[k] \in {Undefined, Null, ""}

Visible(k) == ~result.val[k]

IsRendered == rendered.component # "<not rendered>"

\* C1: checkRenderable throws a ChartSettingsError iff map.type is pin, heat or
\* grid and the longitude or the latitude column is unset or empty, or map.type
\* is region and the dimension or the metric is unset or empty; otherwise it
\* returns, and in either case it changes neither the series nor the settings.
C1_ThrowsIffColumnsUnselected ==
    /\ [](result.op = "checkRenderable" =>
            LET type == settings["map.type"]
                pinUnselected ==
                    /\ type \in {"pin", "heat", "grid"}
                    /\ (Unset("map.longitude_column") \/ Unset("map.latitude_column"))
                regionUnselected ==
                    /\ type = "region"
                    /\ (Unset("map.dimension") \/ Unset("map.metric"))
            IN  /\ (result.val # Returned) <=> (pinUnselected \/ regionUnselected)
                /\ pinUnselected => result.val = LatLonMessage
                /\ regionUnselected => result.val = RegionMessage)
    /\ [][result'.op = "checkRenderable" /\ result' # result =>
            UNCHANGED << series, settings, width, height, rendered, scu >>]_vars

\* a heat map whose longitude column is the empty string has been refused
C1_Witness ==
    /\ result.op = "checkRenderable"
    /\ result.val = LatLonMessage
    /\ settings["map.type"] = "heat"
    /\ settings["map.latitude_column"] = "lat"
    /\ settings["map.longitude_column"] = ""

\* C4: render returns PinMap for map.type pin, heat and grid and ChoroplethMap
\* for region, each with the props of the Map forwarded unchanged, whatever
\* the other props and settings are.
C4_RenderChoosesByMapType ==
    IsRendered =>
        LET type == settings["map.type"]
        IN  /\ type \in {"pin", "heat", "grid"} =>
                rendered.component = "PinMap" /\ rendered.props = thisProps
            /\ type = "region" =>
                rendered.component = "ChoroplethMap" /\ rendered.props = thisProps
            /\ rendered.component \in {"PinMap", "ChoroplethMap"} =>
                type \in MapTypeOptions

\* a grid map has been rendered as a PinMap at the larger width
C4_Witness ==
    /\ rendered.component = "PinMap"
    /\ settings["map.type"] = "grid"
    /\ width = MinWidth + 1
    /\ Unset("map.latitude_column")

BinnedColumnNamed(name) ==
    \E i \in 1..Len(series.cols) :
        series.cols[i].name = name /\ series.cols[i].binning_info

\* C5: the default of map.type: display state or country gives region, pin_map
\* gives pin; otherwise region without a latitude/longitude pair, and with one
\* grid when the columns named by map.latitude_column and map.longitude_column
\* exist and are binned, else heat when map.metric_column is set, else pin.
C5_MapTypeDefaultPriority ==
    result.op = "map.type.getDefault" =>
        LET pair   == hasLatitudeAndLongitudeColumns(series.cols)
            binned == /\ BinnedColumnNamed(settings["map.latitude_column"])
                      /\ BinnedColumnNamed(settings["map.longitude_column"])
            metric == ~Unset("map.metric_column")
            legacy == series.display \in {"state", "country", "pin_map"}
        IN  /\ series.display \in {"state", "country"} => result.val = "region"
            /\ series.display = "pin_map" => result.val = "pin"
            /\ ~legacy /\ ~pair => result.val = "region"
            /\ ~legacy /\ pair /\ binned => result.val = "grid"
            /\ ~legacy /\ pair /\ ~binned /\ metric => result.val = "heat"
            /\ ~legacy /\ pair /\ ~binned /\ ~metric => result.val = "pin"

\* binned coordinates give grid although a metric column is set
C5_Witness ==
    /\ result.op = "map.type.getDefault"
    /\ result.val = "grid"
    /\ series.display = "map"
    /\ settings["map.metric_column"] = "cnt"

\* C6: the default of map.pin_type is heat for map.type heat, grid for grid,
\* and otherwise tiles from 1000 rows on and markers below (1000 gives tiles,
\* 999 markers); for heat and grid the row count has no influence.
C6_PinTypeDefault ==
    result.op = "map.pin_type.getDefault" =>
        LET type == settings["map.type"]
        IN  /\ type = "heat" => result.val = "heat"
            /\ type = "grid" => result.val = "grid"
            /\ type \notin {"heat", "grid"} /\ series.rows >= 1000 =>
                    result.val = "tiles"
            /\ type \notin {"heat", "grid"} /\ series.rows < 1000 =>
                    result.val = "markers"
            /\ type \notin {"heat", "grid"} /\ series.rows = 999 =>
                    result.val = "markers"

\* exactly 1000 rows of a pin map give tiles
C6_Witness ==
    /\ result.op = "map.pin_type.getDefault"
    /\ settings["map.type"] = "pin"
    /\ series.rows = 1000
    /\ result.val = "tiles"

C9_MetricColumnVisibility ==
    /\ result.op = "getHidden" =>
        /\ Visible("map.metric_column") <=>
                /\ settings["map.type"] \in {"pin", "heat", "grid"}
                /\ settings["map.pin_type"] \in {"heat", "grid"}
        /\ settings["map.type"] = "pin" /\ settings["map.pin_type"] \in {"heat", "grid"}
                => Visible("map.metric_column")
    /\ result.op = "map.pin_type.getDefault" =>
        LET atDefault == [settings EXCEPT !["map.pin_type"] = result.val]
        IN  ~getHidden("map.metric_column", series, atDefault) <=>
                settings["map.type"] \in {"heat", "grid"}

\* a pin map with a stored pin type of heat shows the metric field
C9_Witness ==
    /\ result.op = "getHidden"
    /\ settings["map.type"] = "pin"
    /\ settings["map.pin_type"] = "heat"
    /\ Visible("map.metric_column")

\* C10: when checkRenderable returns, render gives PinMap only with both
\* coordinate columns set and ChoroplethMap only with dimension and metric
\* set; the default of map.type is always region, pin, heat or grid; with any
\* other map.type checkRenderable returns and render gives nothing.
C10_CheckRenderableGuardsRender ==
    /\ result.op = "checkRenderable" /\ result.val = Returned /\ IsRendered =>
        /\ rendered.component = "PinMap" =>
                /\ Truthy(rendered.props.settings["map.latitude_column"])
                /\ Truthy(rendered.props.settings["map.longitude_column"])
        /\ rendered.component = "ChoroplethMap" =>
                /\ Truthy(rendered.props.settings["map.dimension"])
                /\ Truthy(rendered.props.settings["map.metric"])
    /\ result.op = "map.type.getDefault" =>
            result.val \in {"region", "pin", "heat", "grid"}
    /\ settings["map.type"] \notin {"region", "pin", "heat", "grid"} =>
        /\ result.op = "checkRenderable" => result.val = Returned
        /\ IsRendered => rendered.component = Undefined

\* a region map that passed checkRenderable has been rendered
C10_Witness ==
    /\ result.op = "checkRenderable"
    /\ result.val = Returned
    /\ rendered.component = "ChoroplethMap"
    /\ settings["map.dimension"] = "state"

\* C3: shouldComponentUpdate returns true whenever the next props carry other
\* settings or another series (false only when width, height, series and
\* settings are all unchanged), so what is rendered is always the rendering
\* of the current props.
C3_RerendersOnEveryChange ==
    /\ scu.called /\ ~scu.ret =>
            /\ scu.nextProps.width = scu.props.width
            /\ scu.nextProps.height = scu.props.height
            /\ scu.nextProps.series = scu.props.series
            /\ scu.nextProps.settings = scu.props.settings
    /\ rendered = render(thisProps)

\* C2: every exception a library call raises during a mount or an update is
\* caught and handed to onRenderError exactly once, as its message or, without
\* a message, as the exception itself; none leaves the lifecycle method.
C2_EveryExceptionForwarded ==
    fault.at # "none" =>
        /\ escaped = NoError
        /\ forwarded = << IF fault.err.message # Undefined
                          THEN [kind |-> "message", value |-> fault.err.message]
                          ELSE [kind |-> "error", value |-> fault.err.id] >>

Index(seq, call) == CHOOSE i \in 1..Len(seq) : seq[i] = call

\* C8: the heat layer exists once mount has run, created before the one update
\* that ends the mount; an update sets the options before the points; after a
\* lifecycle method in which no call threw, options and points are those of
\* the current props; when setting the options throws, the points keep their
\* previous value.
C8_HeatLayerInStep ==
    /\ [](phase = "mounted" =>
            /\ heatLayer.exists
            /\ "heatLayer.setLatLngs" \in Range(calls) =>
                    /\ "heatLayer.setOptions" \in Range(calls)
                    /\ Index(calls, "heatLayer.setOptions") <
                            Index(calls, "heatLayer.setLatLngs")
            /\ "L.heatLayer" \in Range(calls) =>
                    /\ Index(calls, "L.heatLayer") <
                            Index(calls, "super.componentDidUpdate")
                    /\ Cardinality({i \in 1..Len(calls) :
                            calls[i] = "super.componentDidUpdate"}) = 1
            /\ fault.at = "none" =>
                    /\ heatLayer.latlngs = hprops.points
                    /\ DOMAIN heatLayer.options =
                            {"max", "maxZoom", "minOpacity", "radius", "blur"}
                    /\ heatLayer.options["max"] = hprops.max
                    /\ heatLayer.options["maxZoom"] = hprops.settings["map.heat.max-zoom"]
                    /\ heatLayer.options["minOpacity"] =
                            hprops.settings["map.heat.min-opacity"]
                    /\ heatLayer.options["radius"] = hprops.settings["map.heat.radius"]
                    /\ heatLayer.options["blur"] = hprops.settings["map.heat.blur"])
    /\ [][fault'.at = "heatLayer.setOptions" /\ phase = "mounted" =>
            heatLayer'.latlngs = heatLayer.latlngs]_vars
    /\ [][fault'.at = "heatLayer.setOptions" /\ phase = "new" =>
            heatLayer'.latlngs = << >>]_vars

\* setting the options threw in an update: the layer keeps one point although
\* the props hold two
C8_Witness ==
    /\ phase = "mounted"
    /\ fault.at = "heatLayer.setOptions"
    /\ Len(calls) = 2
    /\ heatLayer.latlngs = << 1 >>
    /\ hprops.points = << 1, 2 >>

====
